---- MODULE Spec2Model ----
(***************************************************************************)
(* A model of rox: the scanner (src/src/tokenizer.rs), the recursive       *)
(* descent parser (src/src/parser.rs) and the tree-walking evaluator       *)
(* (src/src/interpreter.rs).                                               *)
(*                                                                         *)
(* The scanner is a state machine over its fields (chars, start, current,  *)
(* line, column, has_error) and the locals of scan (tokens, depth); pc is  *)
(* the place of control inside scan.  Cursors are 0-based as in the code.  *)
(* The parser and the evaluator are deterministic functions of their       *)
(* input and are modelled by recursive operators, applied by one action.   *)
(*                                                                         *)
(* A character is a string of length one; a text is a sequence of          *)
(* characters.  An f64 is modelled by the exact rational <<n, d>> in       *)
(* lowest terms with d > 0 (exact for the short literals used here).       *)
(***************************************************************************)
EXTENDS Integers, Sequences, FiniteSets

VARIABLES
    chars, start, current, line, column, has_error,   \* Scanner's fields
    tokens, depth, pc, scan_result,                    \* scan's locals, control, result
    p_tokens, p_current, parse_result, ppc,            \* Parser's fields, parse's result
    e_expr, eval_result, epc                           \* evaluate's argument and result

scan_vars == <<chars, start, current, line, column, has_error, tokens, depth, pc, scan_result>>
parse_vars == <<p_tokens, p_current, parse_result, ppc>>
eval_vars == <<e_expr, eval_result, epc>>
vars == <<scan_vars, parse_vars, eval_vars>>

-----------------------------------------------------------------------------
(* Bounds of the model *)

\* longest text drawn from the whole alphabet
MaxLen == 4
\* longest text drawn from the block-comment alphabet
MaxCommentLen == 7
\* longest token sequence drawn from the whole token alphabet
MaxTokens == 3
\* most operators in a chain operand op operand op ...
MaxChain == 3

-----------------------------------------------------------------------------
(* Characters *)

\* Option<char>::None
NoChar == "<none>"

Digits == {"0", "1", "2", "3", "4", "5", "6", "7", "8", "9"}

Letters ==
    {"a", "b", "c", "d", "e", "f", "g", "h", "i", "j", "k", "l", "m",
     "n", "o", "p", "q", "r", "s", "t", "u", "v", "w", "x", "y", "z",
     "A", "B", "C", "D", "E", "F", "G", "H", "I", "J", "K", "L", "M",
     "N", "O", "P", "Q", "R", "S", "T", "U", "V", "W", "X", "Y", "Z", "_"}

DigitSeq == <<"0", "1", "2", "3", "4", "5", "6", "7", "8", "9">>

DigitVal(c) == (CHOOSE i \in 1..10 : DigitSeq[i] = c) - 1

-----------------------------------------------------------------------------
(* f64 as exact rationals *)

Abs(n) == IF n < 0 THEN -n ELSE n

RECURSIVE Gcd(_, _)
Gcd(a, b) == IF b = 0 THEN a ELSE Gcd(b, a % b)

Rat(n, d) ==
    LET g == Gcd(Abs(n), Abs(d))
        s == IF d < 0 THEN -1 ELSE 1
    IN  <<(s * n) \div g, (s * d) \div g>>

RECURSIVE Pow10(_)
Pow10(k) == IF k = 0 THEN 1 ELSE 10 * Pow10(k - 1)

RECURSIVE DigitsValue(_)
DigitsValue(ds) ==
    IF ds = <<>> THEN 0
    ELSE 10 * DigitsValue(SubSeq(ds, 1, Len(ds) - 1)) + DigitVal(ds[Len(ds)])

\* str::parse::<f64> on a literal of the form digits or digits.digits
ParseF64(literal) ==
    LET dots == {i \in 1..Len(literal) : literal[i] = "."}
    IN  IF dots = {} THEN Rat(DigitsValue(literal), 1)
        ELSE LET p == CHOOSE i \in dots : TRUE
                 whole == SubSeq(literal, 1, p - 1)
                 frac == SubSeq(literal, p + 1, Len(literal))
             IN  Rat(DigitsValue(whole) * Pow10(Len(frac)) + DigitsValue(frac),
                     Pow10(Len(frac)))

-----------------------------------------------------------------------------
(* Tokens *)

Tok(type) == [type |-> type, text |-> <<>>, num |-> <<0, 1>>]
IdentifierTok(literal) == [type |-> "Identifier", text |-> literal, num |-> <<0, 1>>]
StringTok(literal) == [type |-> "String", text |-> literal, num |-> <<0, 1>>]
NumberTok(value) == [type |-> "Number", text |-> <<>>, num |-> value]

\* Option<Token>::None
NoToken == Tok("<none>")

CtxToken(token, ln) == [token |-> token, line |-> ln]

SingleCharToken(c) ==
    CASE c = "(" -> Tok("LeftParen")
      [] c = ")" -> Tok("RightParen")
      [] c = "{" -> Tok("LeftBrace")
      [] c = "}" -> Tok("RightBrace")
      [] c = "," -> Tok("Comma")
      [] c = "." -> Tok("Dot")
      [] c = "-" -> Tok("Minus")
      [] c = "+" -> Tok("Plus")
      [] c = ";" -> Tok("SemiColon")
      [] c = "*" -> Tok("Star")

SingleChars == {"(", ")", "{", "}", ",", ".", "-", "+", ";", "*"}

OneOrTwoChars == {"!", "=", "<", ">"}

TwoCharToken(c) ==
    CASE c = "!" -> Tok("BangEqual")
      [] c = "=" -> Tok("EqualEqual")
      [] c = "<" -> Tok("LessEqual")
      [] c = ">" -> Tok("GreaterEqual")

OneCharToken(c) ==
    CASE c = "!" -> Tok("Bang")
      [] c = "=" -> Tok("Equal")
      [] c = "<" -> Tok("Less")
      [] c = ">" -> Tok("Greater")

Whitespace == {" ", "\r", "\t"}

Keywords ==
    {<<<<"a", "n", "d">>, "And">>,
     <<<<"c", "l", "a", "s", "s">>, "Class">>,
     <<<<"e", "l", "s", "e">>, "Else">>,
     <<<<"f", "a", "l", "s", "e">>, "False">>,
     <<<<"f", "u", "n">>, "Fun">>,
     <<<<"f", "o", "r">>, "For">>,
     <<<<"i", "f">>, "If">>,
     <<<<"n", "i", "l">>, "Nil">>,
     <<<<"o", "r">>, "Or">>,
     <<<<"p", "r", "i", "n", "t">>, "Print">>,
     <<<<"r", "e", "t", "u", "r", "n">>, "Return">>,
     <<<<"s", "u", "p", "e", "r">>, "Super">>,
     <<<<"t", "h", "i", "s">>, "This">>,
     <<<<"t", "r", "u", "e">>, "True">>,
     <<<<"v", "a", "r">>, "Var">>,
     <<<<"w", "h", "i", "l", "e">>, "While">>}

\* Scanner::lookup_keyword(..).or_else(|| Some(Token::Identifier(literal)))
lookup_keyword(literal) ==
    IF \E k \in Keywords : k[1] = literal
    THEN Tok((CHOOSE k \in Keywords : k[1] = literal)[2])
    ELSE IdentifierTok(literal)

-----------------------------------------------------------------------------
(* Scanner *)

\* self.chars.get(i).copied(), i 0-based
CharAt(i) == IF i >= 0 /\ i < Len(chars) THEN chars[i + 1] ELSE NoChar

\* self.chars[from..to] (to exclusive), 0-based
Slice(from, to) == SubSeq(chars, from + 1, to)

EndIterationWithoutAdvance(token, cur, ln, col, err) ==
    /\ tokens' = IF token = NoToken THEN tokens ELSE Append(tokens, CtxToken(token, ln))
    /\ current' = cur
    /\ column' = col
    /\ start' = cur
    /\ line' = ln
    /\ has_error' = err
    /\ pc' = "top"

\* The end of one iteration of scan's outer loop: push the token if there is
\* one, advance, start = current.  cur, ln, col, err are the fields' values
\* as the body of the iteration left them.
EndIteration(token, cur, ln, col, err) ==
    /\ tokens' = IF token = NoToken THEN tokens ELSE Append(tokens, CtxToken(token, ln))
    /\ current' = cur + 1
    /\ column' = col + 1
    /\ start' = cur + 1
    /\ line' = ln
    /\ has_error' = err
    /\ pc' = "top"

AtTop(c) == pc = "top" /\ CharAt(current) = c

ScanSingleChar ==
    /\ pc = "top"
    /\ CharAt(current) \in SingleChars
    /\ EndIteration(SingleCharToken(CharAt(current)), current, line, column, has_error)
    /\ UNCHANGED <<chars, depth, scan_result, parse_vars, eval_vars>>

\* match_if_next('=', two, one)
ScanOneOrTwoChar ==
    /\ pc = "top"
    /\ CharAt(current) \in OneOrTwoChars
    /\ IF CharAt(current + 1) = "="
       THEN EndIteration(TwoCharToken(CharAt(current)), current + 1, line, column + 1, has_error)
       ELSE EndIteration(OneCharToken(CharAt(current)), current, line, column, has_error)
    /\ UNCHANGED <<chars, depth, scan_result, parse_vars, eval_vars>>

ScanSlash ==
    /\ AtTop("/")
    /\ CharAt(current + 1) \notin {"/", "*"}
    /\ EndIteration(Tok("Slash"), current, line, column, has_error)
    /\ UNCHANGED <<chars, depth, scan_result, parse_vars, eval_vars>>

LineCommentBegin ==
    /\ AtTop("/")
    /\ CharAt(current + 1) = "/"
    /\ pc' = "line_comment"
    /\ UNCHANGED <<chars, start, current, line, column, has_error, tokens, depth, scan_result, parse_vars, eval_vars>>

\* one iteration of the loop of the line comment arm
LineCommentStep ==
    /\ pc = "line_comment"
    /\ LET c == CharAt(current + 1)
       IN  CASE c = "\n" -> EndIteration(NoToken, current + 1, line + 1, 1, has_error)
             [] c = NoChar -> EndIteration(NoToken, current + 1, line, column + 1, has_error)
             [] OTHER ->
                  /\ current' = current + 1
                  /\ column' = column + 1
                  /\ UNCHANGED <<start, line, has_error, tokens, pc>>
    /\ UNCHANGED <<chars, depth, scan_result, parse_vars, eval_vars>>

BlockCommentBegin ==
    /\ AtTop("/")
    /\ CharAt(current + 1) = "*"
    /\ depth' = 1
    /\ current' = current + 1
    /\ column' = column + 1
    /\ pc' = "block_comment"
    /\ UNCHANGED <<chars, start, line, has_error, tokens, scan_result, parse_vars, eval_vars>>

\* Some('*') with matches_next('/'): the character c that advance returned
\* (chars[current + 1]) and the one after it close a comment
BlockCloses(c) == c = "*" /\ CharAt(current + 2) = "/"

BlockOpensIgnored(c) == FALSE

\* Some('/') with matches_next('*'): they open an inner comment
BlockOpens(c) == c = "/" /\ CharAt(current + 2) = "*"

BlockBreakReportsError(c) == has_error \/ c = NoChar

\* has_error after `None => break`: the arm calls no self.error
BlockBreak(c) == has_error

\* one iteration of `while depth != 0`, with the test that follows it; the
\* loop is left when the depth is back to zero or the text is exhausted
BlockCommentStep ==
    /\ pc = "block_comment"
    /\ LET c == CharAt(current + 1)
           closes == BlockCloses(c)
           opens == BlockOpens(c)
           cur == IF closes \/ opens THEN current + 2 ELSE current + 1
           col == IF c = "\n" THEN 1
                  ELSE IF closes \/ opens THEN column + 2 ELSE column + 1
           ln == IF c = "\n" THEN line + 1 ELSE line
           d == IF closes THEN depth - 1 ELSE IF opens THEN depth + 1 ELSE depth
       IN  /\ depth' = d
           /\ IF c = NoChar \/ d = 0
              THEN EndIteration(NoToken, cur, ln, col, BlockBreak(c))
              ELSE /\ current' = cur
                   /\ column' = col
                   /\ line' = ln
                   /\ UNCHANGED <<start, has_error, tokens, pc>>
    /\ UNCHANGED <<chars, scan_result, parse_vars, eval_vars>>

ScanWhitespace ==
    /\ pc = "top"
    /\ CharAt(current) \in Whitespace
    /\ EndIteration(NoToken, current, line, column, has_error)
    /\ UNCHANGED <<chars, depth, scan_result, parse_vars, eval_vars>>

ScanNewline ==
    /\ AtTop("\n")
    /\ EndIteration(NoToken, current, line + 1, 1, has_error)
    /\ UNCHANGED <<chars, depth, scan_result, parse_vars, eval_vars>>

StringBegin ==
    /\ AtTop("\"")
    /\ pc' = "string"
    /\ UNCHANGED <<chars, start, current, line, column, has_error, tokens, depth, scan_result, parse_vars, eval_vars>>

\* one iteration of the loop of the string arm
StringStep ==
    /\ pc = "string"
    /\ LET c == CharAt(current + 1)
       IN  CASE c = NoChar -> EndIteration(NoToken, current + 1, line, column + 1, TRUE)
             [] c = "\"" ->
                  EndIteration(StringTok(Slice(start + 1, current + 1)),
                               current + 1, line, column + 1, has_error)
             [] c = "\n" ->
                  /\ current' = current + 1
                  /\ line' = line + 1
                  /\ column' = 1
                  /\ UNCHANGED <<start, has_error, tokens, pc>>
             [] OTHER ->
                  /\ current' = current + 1
                  /\ column' = column + 1
                  /\ UNCHANGED <<start, line, has_error, tokens, pc>>
    /\ UNCHANGED <<chars, depth, scan_result, parse_vars, eval_vars>>

\* the token of the number arm: chars[start..=current] parsed as f64
NumberToken == NumberTok(ParseF64(Slice(start, current + 1)))

NumberBegin ==
    /\ pc = "top"
    /\ CharAt(current) \in Digits
    /\ pc' = "number"
    /\ UNCHANGED <<chars, start, current, line, column, has_error, tokens, depth, scan_result, parse_vars, eval_vars>>

ConsumesDotAlways == TRUE

\* whether the number arm consumes the '.' it peeks at: peek_next is a digit
ConsumesDot == CharAt(current + 2) \in Digits

\* one iteration of 'outer: while let Some(next_char) = self.peek()
NumberStep ==
    /\ pc = "number"
    /\ LET c == CharAt(current + 1)
       IN  CASE c \in Digits ->
                  /\ current' = current + 1
                  /\ column' = column + 1
                  /\ UNCHANGED <<start, line, has_error, tokens, pc>>
             [] c = "." /\ ConsumesDot ->
                  /\ current' = current + 1
                  /\ column' = column + 1
                  /\ pc' = "number_frac"
                  /\ UNCHANGED <<start, line, has_error, tokens>>
             [] OTHER -> EndIteration(NumberToken, current, line, column, has_error)
    /\ UNCHANGED <<chars, depth, scan_result, parse_vars, eval_vars>>

\* one iteration of the inner `while let Some(next_digit) = self.peek()`
NumberFracStep ==
    /\ pc = "number_frac"
    /\ LET c == CharAt(current + 1)
       IN  CASE c \in Digits ->
                  /\ current' = current + 1
                  /\ column' = column + 1
                  /\ UNCHANGED <<start, line, has_error, tokens, pc>>
             [] c = NoChar ->
                  /\ pc' = "number"
                  /\ UNCHANGED <<start, current, line, column, has_error, tokens>>
             [] OTHER -> EndIteration(NumberToken, current, line, column, has_error)
    /\ UNCHANGED <<chars, depth, scan_result, parse_vars, eval_vars>>

IdentifierBegin ==
    /\ pc = "top"
    /\ CharAt(current) \in Letters
    /\ pc' = "identifier"
    /\ UNCHANGED <<chars, start, current, line, column, has_error, tokens, depth, scan_result, parse_vars, eval_vars>>

IdentifierStep ==
    /\ pc = "identifier"
    /\ IF CharAt(current + 1) \in Letters \cup Digits
       THEN /\ current' = current + 1
            /\ column' = column + 1
            /\ UNCHANGED <<start, line, has_error, tokens, pc>>
       ELSE EndIteration(lookup_keyword(Slice(start, current + 1)),
                         current, line, column, has_error)
    /\ UNCHANGED <<chars, depth, scan_result, parse_vars, eval_vars>>

\* the characters some arm of scan's match other than `_` takes
KnownChars ==
    SingleChars \cup OneOrTwoChars \cup {"/", "\n", "\""} \cup Whitespace
        \cup Digits \cup Letters

ScanUnexpected ==
    /\ pc = "top"
    /\ CharAt(current) \notin KnownChars \cup {NoChar}
    /\ EndIteration(NoToken, current, line, column, TRUE)
    /\ UNCHANGED <<chars, depth, scan_result, parse_vars, eval_vars>>

ScanResultPartial(toks) == [ok |-> ~has_error, tokens |-> toks]

\* match self.has_error { true => Err(()), false => Ok(tokens) }
ScanResult(toks) ==
    IF has_error THEN [ok |-> FALSE, tokens |-> <<>>] ELSE [ok |-> TRUE, tokens |-> toks]

\* after the loop: push Eof and return
ScanReturn ==
    /\ AtTop(NoChar)
    /\ tokens' = Append(tokens, CtxToken(Tok("Eof"), line))
    /\ scan_result' = ScanResult(tokens')
    /\ pc' = "done"
    /\ UNCHANGED <<chars, start, current, line, column, has_error, depth, parse_vars, eval_vars>>

ScanNext ==
    \/ ScanSingleChar
    \/ ScanOneOrTwoChar
    \/ ScanSlash
    \/ LineCommentBegin
    \/ LineCommentStep
    \/ BlockCommentBegin
    \/ BlockCommentStep
    \/ ScanWhitespace
    \/ ScanNewline
    \/ StringBegin
    \/ StringStep
    \/ NumberBegin
    \/ NumberStep
    \/ NumberFracStep
    \/ IdentifierBegin
    \/ IdentifierStep
    \/ ScanUnexpected
    \/ ScanReturn

-----------------------------------------------------------------------------
(* Runtime values: LoxType *)

NilValue == [kind |-> "Nil", b |-> FALSE, s |-> <<>>, n |-> <<0, 1>>]
BoolValue(b) == [kind |-> "Bool", b |-> b, s |-> <<>>, n |-> <<0, 1>>]
StringValue(s) == [kind |-> "String", b |-> FALSE, s |-> s, n |-> <<0, 1>>]
NumberValue(n) == [kind |-> "Number", b |-> FALSE, s |-> <<>>, n |-> n]

-----------------------------------------------------------------------------
(* expression trees: Expr *)

NoExpr == [node |-> "<none>"]

Literal(value) == [node |-> "Literal", value |-> value]

Grouping(expr) == [node |-> "Grouping", expr |-> expr]

UnaryExpr(operator, expr) == [node |-> "Unary", operator |-> operator, expr |-> expr]

MakeBinarySwapped(left, operator, right) ==
    [node |-> "Binary", left |-> right, operator |-> operator, right |-> left]

\* Expr::Binary { left: Box::new(expr.clone()), operator: token.clone(), right: .. }
MakeBinary(left, operator, right) ==
    [node |-> "Binary", left |-> left, operator |-> operator, right |-> right]

TernaryExpr(condition, then, otherwise) ==
    [node |-> "Ternary", condition |-> condition, then |-> then, otherwise |-> otherwise]

-----------------------------------------------------------------------------
(* Parser.  Each rule is an operator of the tokens and the cursor that     *)
(* returns the tree (or the failure and its message) and the cursor the    *)
(* rule leaves behind.                                                     *)

\* Option<CtxToken>::None
NoCtxToken == CtxToken(NoToken, 0)

\* Parser::get_current: self.tokens.get(self.current).cloned()
get_current(toks, cur) == IF cur < Len(toks) THEN toks[cur + 1] ELSE NoCtxToken

Parsed(expr, cur) == [ok |-> TRUE, expr |-> expr, cur |-> cur, message |-> ""]

\* Err(self.error(message))
ParseFailed(cur, message) == [ok |-> FALSE, expr |-> NoExpr, cur |-> cur, message |-> message]

\* Rust's `?`: the failure r itself, or the rest of the function applied to
\* the success r.  (r is bound once, through a singleton set.)
Try(r, rest(_)) == CHOOSE result \in {IF x.ok THEN rest(x) ELSE x : x \in {r}} : TRUE

\* Parser::consume: Ok and advance when the current token is `type`
consume(toks, cur, type, message) ==
    IF get_current(toks, cur).token.type = type
    THEN Parsed(NoExpr, cur + 1)
    ELSE ParseFailed(cur, message)

EqualityOps == {"EqualEqual", "BangEqual"}
ComparisonOps == {"Less", "LessEqual", "Greater", "GreaterEqual"}
TermOps == {"Plus", "Minus"}
FactorOps == {"Slash", "Star"}
UnaryOpsWithPlus == {"Bang", "Minus", "Plus"}

\* Token::Bang | Token::Minus in unary
UnaryOps == {"Bang", "Minus"}

\* the tokens primary reports as an operator with no left side
PrimaryOperatorTypes ==
    {"EqualEqual", "BangEqual", "Less", "LessEqual", "Greater", "GreaterEqual", "Plus"}

RECURSIVE expression(_, _)
RECURSIVE equality(_, _)
RECURSIVE equality_loop(_, _, _)
RECURSIVE comparison(_, _)
RECURSIVE comparison_loop(_, _, _)
RECURSIVE term(_, _)
RECURSIVE term_loop(_, _, _)
RECURSIVE factor(_, _)
RECURSIVE factor_loop(_, _, _)
RECURSIVE unary(_, _)
RECURSIVE primary(_, _)

ternary_otherwise_equality(toks, cur) == equality(toks, cur)

\* let otherwise = self.expression()?
ternary_otherwise(toks, cur) == expression(toks, cur)

ternary(toks, cur) ==
    Try(equality(toks, cur), LAMBDA cond :
        IF get_current(toks, cond.cur).token.type = "Quest"
        THEN Try(expression(toks, cond.cur + 1), LAMBDA then :
                 Try(consume(toks, then.cur, "Colon",
                             "expected colon inside ternary expression"), LAMBDA colon :
                     Try(ternary_otherwise(toks, colon.cur), LAMBDA otherwise :
                         Parsed(TernaryExpr(cond.expr, then.expr, otherwise.expr),
                                otherwise.cur))))
        ELSE cond)

expression_to_eof(toks, cur) ==
    Try(ternary(toks, cur), LAMBDA e :
        IF get_current(toks, e.cur).token.type = "Eof" THEN e
        ELSE ParseFailed(e.cur, "expected end of expression"))

\* Parser::expression
expression(toks, cur) == ternary(toks, cur)

\* the while loop of equality, entered with the tree built so far
equality_loop(toks, expr, cur) ==
    IF get_current(toks, cur).token.type \in EqualityOps
    THEN Try(comparison(toks, cur + 1), LAMBDA right :
             equality_loop(toks, MakeBinary(expr, get_current(toks, cur), right.expr),
                           right.cur))
    ELSE Parsed(expr, cur)

equality(toks, cur) ==
    Try(comparison(toks, cur), LAMBDA first : equality_loop(toks, first.expr, first.cur))

\* the right operand of a comparison operator: self.factor()
comparison_right(toks, cur) == factor(toks, cur)

\* the while loop of comparison
comparison_loop(toks, expr, cur) ==
    IF get_current(toks, cur).token.type \in ComparisonOps
    THEN Try(comparison_right(toks, cur + 1), LAMBDA right :
             comparison_loop(toks, MakeBinary(expr, get_current(toks, cur), right.expr),
                             right.cur))
    ELSE Parsed(expr, cur)

comparison(toks, cur) ==
    Try(term(toks, cur), LAMBDA first : comparison_loop(toks, first.expr, first.cur))

\* the while loop of term
term_loop(toks, expr, cur) ==
    IF get_current(toks, cur).token.type \in TermOps
    THEN Try(factor(toks, cur + 1), LAMBDA right :
             term_loop(toks, MakeBinary(expr, get_current(toks, cur), right.expr),
                       right.cur))
    ELSE Parsed(expr, cur)

term(toks, cur) ==
    Try(factor(toks, cur), LAMBDA first : term_loop(toks, first.expr, first.cur))

\* the while loop of factor
factor_loop(toks, expr, cur) ==
    IF get_current(toks, cur).token.type \in FactorOps
    THEN Try(unary(toks, cur + 1), LAMBDA right :
             factor_loop(toks, MakeBinary(expr, get_current(toks, cur), right.expr),
                         right.cur))
    ELSE Parsed(expr, cur)

factor(toks, cur) ==
    Try(unary(toks, cur), LAMBDA first : factor_loop(toks, first.expr, first.cur))

unary(toks, cur) ==
    IF get_current(toks, cur).token.type \in UnaryOps
    THEN Try(unary(toks, cur + 1), LAMBDA operand :
             Parsed(UnaryExpr(get_current(toks, cur), operand.expr), operand.cur))
    ELSE primary(toks, cur)

primary(toks, cur) ==
    LET token == get_current(toks, cur).token
    IN  CASE token.type = "False" -> Parsed(Literal(BoolValue(FALSE)), cur + 1)
          [] token.type = "True" -> Parsed(Literal(BoolValue(TRUE)), cur + 1)
          [] token.type = "Nil" -> Parsed(Literal(NilValue), cur + 1)
          [] token.type = "Number" -> Parsed(Literal(NumberValue(token.num)), cur + 1)
          [] token.type = "String" -> Parsed(Literal(StringValue(token.text)), cur + 1)
          [] token.type = "LeftParen" ->
               Try(expression(toks, cur + 1), LAMBDA inner :
                   Try(consume(toks, inner.cur, "RightParen", "missing closing paren"),
                       LAMBDA paren : Parsed(Grouping(inner.expr), paren.cur)))
          [] token.type \in PrimaryOperatorTypes ->
               ParseFailed(cur, "missing expression on left side of operator")
          [] OTHER -> ParseFailed(cur, "missing expression")

\* Parser::parse on Parser::new(p_tokens)
parse ==
    /\ ppc = "ready"
    /\ LET r == expression(p_tokens, p_current)
       IN  /\ p_current' = r.cur
           /\ parse_result' = r
    /\ ppc' = "done"
    /\ UNCHANGED <<p_tokens, scan_vars, eval_vars>>

-----------------------------------------------------------------------------
(* Rendering: Token::get_lexeme, Display for LoxType, Expr::to_string *)

RECURSIVE NatDigits(_)
NatDigits(n) ==
    IF n < 10 THEN <<DigitSeq[n + 1]>>
    ELSE NatDigits(n \div 10) \o <<DigitSeq[(n % 10) + 1]>>

\* the digits of n, padded with zeros on the left to k places
RECURSIVE PadDigits(_, _)
PadDigits(n, k) ==
    IF k = 0 THEN <<>> ELSE PadDigits(n \div 10, k - 1) \o <<DigitSeq[(n % 10) + 1]>>

\* the least k with d dividing 10^k (d a divisor of a power of ten)
RECURSIVE FracPlaces(_, _)
FracPlaces(d, k) == IF Pow10(k) % d = 0 THEN k ELSE FracPlaces(d, k + 1)

\* format!("{}", value) for an f64 with a finite decimal expansion
FormatF64(v) ==
    LET n == Abs(v[1])
        d == v[2]
        sign == IF v[1] < 0 THEN <<"-">> ELSE <<>>
        k == FracPlaces(d, 0)
    IN  IF d = 1 THEN sign \o NatDigits(n)
        ELSE sign \o NatDigits(n \div d) \o <<".">>
                 \o PadDigits(((n % d) * Pow10(k)) \div d, k)

\* Token::get_lexeme
get_lexeme(token) ==
    CASE token.type = "LeftParen" -> <<"(">>
      [] token.type = "RightParen" -> <<")">>
      [] token.type = "LeftBrace" -> <<"{">>
      [] token.type = "RightBrace" -> <<"}">>
      [] token.type = "Comma" -> <<".", "t", "o", "_", "s", "t", "r", "i", "n", "g", "(", ")", ",">>
      [] token.type = "Dot" -> <<".">>
      [] token.type = "Minus" -> <<"-">>
      [] token.type = "Plus" -> <<"+">>
      [] token.type = "SemiColon" -> <<";">>
      [] token.type = "Slash" -> <<"/">>
      [] token.type = "Star" -> <<"*">>
      [] token.type = "Bang" -> <<"!">>
      [] token.type = "BangEqual" -> <<"!", "=">>
      [] token.type = "Equal" -> <<"=">>
      [] token.type = "EqualEqual" -> <<"=", "=">>
      [] token.type = "Greater" -> <<">">>
      [] token.type = "GreaterEqual" -> <<">", "=">>
      [] token.type = "Less" -> <<"<">>
      [] token.type = "LessEqual" -> <<"<", "=">>
      [] token.type \in {"Identifier", "String"} -> token.text
      [] token.type = "Number" -> FormatF64(token.num)
      [] token.type = "Eof" -> <<"E", "O", "F">>
      [] \E k \in Keywords : k[2] = token.type ->
           (CHOOSE k \in Keywords : k[2] = token.type)[1]

\* impl fmt::Display for LoxType
DisplayValue(value) ==
    CASE value.kind = "Nil" -> <<"n", "i", "l">>
      [] value.kind = "Bool" ->
           IF value.b THEN <<"t", "r", "u", "e">> ELSE <<"f", "a", "l", "s", "e">>
      [] value.kind = "String" -> <<"\"">> \o value.s \o <<"\"">>
      [] value.kind = "Number" -> FormatF64(value.n)

\* Expr::to_string
RECURSIVE to_string(_)
to_string(expr) ==
    CASE expr.node = "Binary" ->
           <<"(">> \o to_string(expr.left) \o <<" ">> \o get_lexeme(expr.operator.token)
               \o <<" ">> \o to_string(expr.right) \o <<")">>
      [] expr.node = "Grouping" -> <<"(">> \o to_string(expr.expr) \o <<")">>
      [] expr.node = "Literal" -> DisplayValue(expr.value)
      [] expr.node = "Unary" ->
           <<"(">> \o get_lexeme(expr.operator.token) \o <<" ">> \o to_string(expr.expr)
               \o <<")">>
      [] expr.node = "Ternary" ->
           <<"(">> \o to_string(expr.condition) \o <<" ", "?", " ">> \o to_string(expr.then)
               \o <<" ", ":", " ">> \o to_string(expr.otherwise) \o <<")">>

-----------------------------------------------------------------------------
(* Evaluator *)

RatAdd(a, b) == Rat(a[1] * b[2] + b[1] * a[2], a[2] * b[2])
RatSub(a, b) == Rat(a[1] * b[2] - b[1] * a[2], a[2] * b[2])
RatMul(a, b) == Rat(a[1] * b[1], a[2] * b[2])
RatDiv(a, b) == Rat(a[1] * b[2], a[2] * b[1])
RatNeg(a) == <<-a[1], a[2]>>
RatLess(a, b) == a[1] * b[2] < b[1] * a[2]

\* Ok(value)
Value(value) == [ok |-> TRUE, value |-> value, error |-> "", token |-> NoCtxToken]

\* Err(RuntimeError::TypeError(token)), Err(RuntimeError::ZeroDivisionError(token));
\* "panic" stands for the todo!() and panic!() of the unhandled operator arms
RuntimeError(kind, token) == [ok |-> FALSE, value |-> NilValue, error |-> kind, token |-> token]

is_truthy_unless_nil(value) ==
    CASE value.kind = "Nil" -> FALSE
      [] value.kind = "Bool" -> value.b
      [] OTHER -> TRUE

\* Interpreter::is_truthy
is_truthy(value) ==
    CASE value.kind = "Nil" -> FALSE
      [] value.kind = "Bool" -> value.b
      [] value.kind = "String" -> value.s # <<>>
      [] value.kind = "Number" -> value.n # <<0, 1>>

is_equal_by_truthiness(left, right) ==
    IF left.kind = right.kind THEN left = right ELSE is_truthy(left) = is_truthy(right)

\* Interpreter::is_equal
is_equal(left, right) ==
    CASE left.kind = "Nil" /\ right.kind = "Nil" -> TRUE
      [] left.kind = "Bool" /\ right.kind = "Bool" -> left.b = right.b
      [] left.kind = "String" /\ right.kind = "String" -> left.s = right.s
      [] left.kind = "Number" /\ right.kind = "Number" -> left.n = right.n
      [] OTHER -> FALSE

BothNumbersOrBools(left, right) ==
    left.kind \in {"Number", "Bool"} /\ right.kind \in {"Number", "Bool"}

\* the (Type::Number(left), Type::Number(right)) pattern
BothNumbers(left, right) == left.kind = "Number" /\ right.kind = "Number"

DivideZeroAsTypeError(operator, left, right) ==
    IF BothNumbers(left, right)
    THEN IF right.n = <<0, 1>>
         THEN RuntimeError("TypeError", operator)
         ELSE Value(NumberValue(RatDiv(left.n, right.n)))
    ELSE RuntimeError("TypeError", operator)

\* the Token::Slash arm of evaluate_binary
Divide(operator, left, right) ==
    IF BothNumbers(left, right)
    THEN IF right.n = <<0, 1>>
         THEN RuntimeError("ZeroDivisionError", operator)
         ELSE Value(NumberValue(RatDiv(left.n, right.n)))
    ELSE RuntimeError("TypeError", operator)

\* the match on the operator in evaluate_binary, on the operands' values
ApplyBinary(operator, left, right) ==
    LET type == operator.token.type
        numeric(result) ==
            IF BothNumbers(left, right) THEN Value(result)
            ELSE RuntimeError("TypeError", operator)
    IN  CASE type = "Plus" ->
               IF BothNumbers(left, right) THEN Value(NumberValue(RatAdd(left.n, right.n)))
               ELSE IF left.kind = "String" /\ right.kind = "String"
               THEN Value(StringValue(left.s \o right.s))
               ELSE RuntimeError("TypeError", operator)
          [] type = "Minus" -> numeric(NumberValue(RatSub(left.n, right.n)))
          [] type = "Star" -> numeric(NumberValue(RatMul(left.n, right.n)))
          [] type = "Slash" -> Divide(operator, left, right)
          [] type = "Greater" -> numeric(BoolValue(RatLess(right.n, left.n)))
          [] type = "GreaterEqual" -> numeric(BoolValue(~RatLess(left.n, right.n)))
          [] type = "Less" -> numeric(BoolValue(RatLess(left.n, right.n)))
          [] type = "LessEqual" -> numeric(BoolValue(~RatLess(right.n, left.n)))
          [] type = "EqualEqual" -> Value(BoolValue(is_equal(left, right)))
          [] type = "BangEqual" -> Value(BoolValue(~is_equal(left, right)))
          [] OTHER -> RuntimeError("panic", operator)

\* the match on the operator in evaluate_unary, on the operand's value
ApplyUnary(operator, literal) ==
    CASE operator.token.type = "Minus" ->
           IF literal.kind = "Number" THEN Value(NumberValue(RatNeg(literal.n)))
           ELSE RuntimeError("TypeError", operator)
      [] operator.token.type = "Bang" -> Value(BoolValue(~is_truthy(literal)))
      [] OTHER -> RuntimeError("panic", operator)

RECURSIVE evaluate(_)

evaluate_binary_right_first(left, operator, right) ==
    Try(evaluate(right), LAMBDA r :
        Try(evaluate(left), LAMBDA l : ApplyBinary(operator, l.value, r.value)))

\* Interpreter::evaluate_binary
evaluate_binary(left, operator, right) ==
    Try(evaluate(left), LAMBDA l :
        Try(evaluate(right), LAMBDA r : ApplyBinary(operator, l.value, r.value)))

\* Interpreter::evaluate_grouping
evaluate_grouping(expr) == evaluate(expr)

\* Interpreter::evaluate_unary
evaluate_unary(operator, expr) ==
    Try(evaluate(expr), LAMBDA literal : ApplyUnary(operator, literal.value))

evaluate_ternary_eager(condition, then, otherwise) ==
    Try(evaluate(condition), LAMBDA c :
        Try(evaluate(then), LAMBDA t :
            Try(evaluate(otherwise), LAMBDA o : IF is_truthy(c.value) THEN t ELSE o)))

\* Interpreter::evaluate_ternary
evaluate_ternary(condition, then, otherwise) ==
    Try(evaluate(condition), LAMBDA c :
        IF is_truthy(c.value) THEN evaluate(then) ELSE evaluate(otherwise))

\* Interpreter::evaluate
evaluate(expr) ==
    CASE expr.node = "Binary" -> evaluate_binary(expr.left, expr.operator, expr.right)
      [] expr.node = "Grouping" -> evaluate_grouping(expr.expr)
      [] expr.node = "Literal" -> Value(expr.value)
      [] expr.node = "Unary" -> evaluate_unary(expr.operator, expr.expr)
      [] expr.node = "Ternary" -> evaluate_ternary(expr.condition, expr.then, expr.otherwise)

\* Interpreter::interpret(e_expr): evaluate the tree
interpret ==
    /\ epc = "ready"
    /\ eval_result' = evaluate(e_expr)
    /\ epc' = "done"
    /\ UNCHANGED <<e_expr, scan_vars, parse_vars>>

-----------------------------------------------------------------------------
(* The texts scan is given *)

RECURSIVE SeqsUpTo(_, _)
SeqsUpTo(S, n) ==
    IF n = 0 THEN {<<>>}
    ELSE LET shorter == SeqsUpTo(S, n - 1)
         IN  shorter \cup {Append(s, c) : s \in shorter, c \in S}

SourceChars == {"1", ".", "/", "*", "\n", "\"", "a", "=", " ", "#"}

CommentChars == {"/", "*", "\n"}

ExampleSources ==
    {<<"1", "\n", "+">>,
     <<"?">>,
     <<"1", "?", "2", ":", "3">>,
     <<"\"", "?", "\"", "/", "/", ":">>,
     <<"/", "*", " ", "a", " ", "/", "*", " ", "b", " ", "*", "/", " ", "c", " ", "*", "/", " ", "1">>,
     <<"\"", "a", "\n", "b", "\"", " ", "1">>,
     <<"1", ".">>,
     <<"1", ".", "5", ".", "3">>,
     <<"(", "1", " ", "+", " ", "2", ")", " ", "*", " ", "3", " ", "=", "=", " ", "9", " ",
       "?", " ", "\"", "y", "e", "s", "\"", " ", ":", " ", "\"", "n", "o", "\"">>,
     <<"1", " ", "-", " ", "2", " ", "-", " ", "3">>,
     <<"{", "}", ",", ";", "(", ")", "-", "!", "<", ">", "<", "=", ">", "=", "!", "=">>,
     <<"n", "i", "l", " ", "o", "r", "1", " ", "t", "r", "u", "e", "\t", "\r", "_", "x">>}

Sources ==
    SeqsUpTo(SourceChars, MaxLen) \cup SeqsUpTo(CommentChars, MaxCommentLen)
        \cup ExampleSources

ScanIdle ==
    /\ chars = <<>>
    /\ start = 0
    /\ current = 0
    /\ line = 1
    /\ column = 1
    /\ has_error = FALSE
    /\ tokens = <<>>
    /\ depth = 0
    /\ pc = "idle"
    /\ scan_result = [ok |-> FALSE, tokens |-> <<>>]

ParseIdle ==
    /\ p_tokens = <<>>
    /\ p_current = 0
    /\ parse_result = ParseFailed(0, "")
    /\ ppc = "idle"

EvalIdle ==
    /\ e_expr = NoExpr
    /\ eval_result = RuntimeError("", NoCtxToken)
    /\ epc = "idle"

\* Scanner::new(source), before scan
Init ==
    /\ chars \in Sources
    /\ start = 0
    /\ current = 0
    /\ line = 1
    /\ column = 1
    /\ has_error = FALSE
    /\ tokens = <<>>
    /\ depth = 0
    /\ pc = "top"
    /\ scan_result = [ok |-> FALSE, tokens |-> <<>>]
    /\ ParseIdle
    /\ EvalIdle

Next == ScanNext

Spec == Init /\ [][Next]_vars

\* scan is one sequential call: it keeps running until it returns
FairSpec == Init /\ [][Next]_vars /\ WF_vars(Next)

-----------------------------------------------------------------------------
(* The token sequences parse is given *)

Num(k) == NumberTok(<<k, 1>>)

ParseTokens ==
    {Num(1), StringTok(<<"a">>), Tok("True"), Tok("Nil"), Tok("Minus"), Tok("Bang"),
     Tok("Plus"), Tok("Star"), Tok("Less"), Tok("EqualEqual"), Tok("Quest"), Tok("Colon"),
     Tok("LeftParen"), Tok("RightParen"), Tok("SemiColon")}

BinaryOps == EqualityOps \cup ComparisonOps \cup TermOps \cup FactorOps

ChainOps == {Tok(type) : type \in BinaryOps \cup {"Quest", "Colon"}}

\* Number(1) op Number(2) op ... : a chain over the operators ops
RECURSIVE Chain(_)
Chain(ops) ==
    IF ops = <<>> THEN <<Num(1)>>
    ELSE Chain(SubSeq(ops, 1, Len(ops) - 1)) \o <<ops[Len(ops)], Num(Len(ops) + 1)>>

\* 1 ? 2 : 3 ? 4 : 5
TernaryChainTokens ==
    <<Num(1), Tok("Quest"), Num(2), Tok("Colon"), Num(3), Tok("Quest"), Num(4),
      Tok("Colon"), Num(5)>>

\* (1 + 2) * 3 == 9 ? "yes" : "no"
TernaryExampleTokens ==
    <<Tok("LeftParen"), Num(1), Tok("Plus"), Num(2), Tok("RightParen"), Tok("Star"), Num(3),
      Tok("EqualEqual"), Num(9), Tok("Quest"), StringTok(<<"y", "e", "s">>), Tok("Colon"),
      StringTok(<<"n", "o">>)>>

ExampleTokens ==
    {TernaryChainTokens, TernaryExampleTokens,
     <<Num(1), Tok("Less"), Num(2), Tok("Plus"), Num(3), Tok("Less"), Num(4)>>,
     <<NumberTok(<<3, 2>>), Tok("Slash"), NumberTok(<<1, 2>>), Tok("GreaterEqual"), Tok("False")>>}

\* every sequence ends with the Eof scan appends; all tokens on line 1
Located(toks) == [k \in 1..Len(toks) + 1 |->
                     CtxToken(IF k <= Len(toks) THEN toks[k] ELSE Tok("Eof"), 1)]

TokenSeqs ==
    {Located(toks) :
        toks \in SeqsUpTo(ParseTokens, MaxTokens)
                    \cup {Chain(ops) : ops \in SeqsUpTo(ChainOps, MaxChain)}
                    \cup ExampleTokens}

\* Parser::new(tokens), before parse
InitParse ==
    /\ ScanIdle
    /\ p_tokens \in TokenSeqs
    /\ p_current = 0
    /\ parse_result = ParseFailed(0, "")
    /\ ppc = "ready"
    /\ EvalIdle

NextParse == parse

SpecParse == InitParse /\ [][NextParse]_vars

-----------------------------------------------------------------------------
(* The trees evaluate is given *)

LiteralValues ==
    {NilValue, BoolValue(TRUE), BoolValue(FALSE), StringValue(<<>>), StringValue(<<"a">>),
     NumberValue(<<0, 1>>), NumberValue(<<1, 1>>), NumberValue(<<1, 2>>)}

Literals == {Literal(v) : v \in LiteralValues}

\* operands of every outcome: each kind of value, a TypeError and a
\* ZeroDivisionError, with their operator tokens on line ln
OperandsAt(ln) ==
    {Literal(NilValue), Literal(BoolValue(TRUE)), Literal(StringValue(<<"a">>)),
     Literal(NumberValue(<<0, 1>>)), Literal(NumberValue(<<1, 1>>)),
     MakeBinary(Literal(NumberValue(<<1, 1>>)), CtxToken(Tok("Slash"), ln),
                Literal(NumberValue(<<0, 1>>))),
     UnaryExpr(CtxToken(Tok("Minus"), ln), Literal(StringValue(<<"a">>))),
     Grouping(MakeBinary(Literal(NumberValue(<<1, 1>>)), CtxToken(Tok("Less"), ln),
                         Literal(NumberValue(<<1, 2>>))))}

\* ! applied k times to expr, the operators on line 1
RECURSIVE BangChain(_, _)
BangChain(k, expr) ==
    IF k = 0 THEN expr ELSE UnaryExpr(CtxToken(Tok("Bang"), 1), BangChain(k - 1, expr))

EvalExprs ==
    Literals
        \cup {BangChain(k, e) : k \in 2..3, e \in Literals \cup OperandsAt(2)}
        \cup {Grouping(e) : e \in Literals}
        \cup {UnaryExpr(CtxToken(Tok(op), 1), e) : op \in UnaryOps, e \in Literals}
        \cup {MakeBinary(l, CtxToken(Tok(op), 1), r) :
                 l \in Literals, op \in BinaryOps, r \in Literals}
        \cup {UnaryExpr(CtxToken(Tok(op), 1), e) : op \in UnaryOps, e \in OperandsAt(2)}
        \cup {MakeBinary(l, CtxToken(Tok(op), 1), r) :
                 l \in OperandsAt(2), op \in BinaryOps, r \in OperandsAt(3)}
        \cup {TernaryExpr(c, t, o) :
                 c \in OperandsAt(2) \cup Literals, t \in OperandsAt(3), o \in OperandsAt(4)}

\* before Interpreter::interpret(e_expr)
InitEval ==
    /\ ScanIdle
    /\ ParseIdle
    /\ e_expr \in EvalExprs
    /\ eval_result = RuntimeError("", NoCtxToken)
    /\ epc = "ready"

NextEval == interpret

SpecEval == InitEval /\ [][NextEval]_vars

-----------------------------------------------------------------------------
(* What the scanner is to produce, read off the text by position.          *)
(* Indices here are 1-based positions of the text s.                       *)

At(s, i) == IF i >= 1 /\ i <= Len(s) THEN s[i] ELSE NoChar

\* the characters that are tokens or part of tokens, '?' and ':' among them
TokenChars == KnownChars \cup {"?", ":"}

\* the last position of the maximal run of characters of S that starts at i
RECURSIVE RunEnd(_, _, _)
RunEnd(s, i, S) == IF At(s, i + 1) \in S THEN RunEnd(s, i + 1, S) ELSE i

\* the last position of the number literal that starts at i
NumberEnd(s, i) ==
    LET e == RunEnd(s, i, Digits)
    IN  IF At(s, e + 1) = "." /\ At(s, e + 2) \in Digits
        THEN RunEnd(s, e + 2, Digits)
        ELSE e

\* the nesting depth after s[i..to], read left to right from depth d
RECURSIVE NestDepth(_, _, _, _)
NestDepth(s, i, to, d) ==
    IF i > to THEN d
    ELSE IF i < to /\ s[i] = "/" /\ s[i + 1] = "*" THEN NestDepth(s, i + 2, to, d + 1)
    ELSE IF i < to /\ s[i] = "*" /\ s[i + 1] = "/" THEN NestDepth(s, i + 2, to, d - 1)
    ELSE NestDepth(s, i + 1, to, d)

\* the first position after the block comment that opens at i ("/*" at i, i+1);
\* Len(s) + 1 when it is still open at the end of the text
RECURSIVE CommentEnd(_, _, _)
CommentEnd(s, i, j) ==
    IF j > Len(s) THEN Len(s) + 1
    ELSE IF NestDepth(s, i, j, 0) = 0 THEN j + 1
    ELSE CommentEnd(s, i, j + 1)

\* the first position after the line comment that starts at i
RECURSIVE LineEnd(_, _)
LineEnd(s, i) ==
    IF i > Len(s) THEN i ELSE IF s[i] = "\n" THEN i + 1 ELSE LineEnd(s, i + 1)

\* the position of the first '"' at or after i, 0 when there is none
RECURSIVE QuoteAt(_, _)
QuoteAt(s, i) ==
    IF i > Len(s) THEN 0 ELSE IF s[i] = "\"" THEN i ELSE QuoteAt(s, i + 1)

Lexeme(type, from, to) == [type |-> type, from |-> from, to |-> to]

\* the lexemes of s from position i on, in order: maximal munch, comments and
\* whitespace dropped; "<invalid>" marks a character that starts no token and
\* a string with no closing quote
RECURSIVE Lexemes(_, _)
Lexemes(s, i) ==
    IF i > Len(s) THEN <<>>
    ELSE LET c == s[i]
             n == At(s, i + 1)
         IN  CASE c = "/" /\ n = "/" -> Lexemes(s, LineEnd(s, i))
               [] c = "/" /\ n = "*" -> Lexemes(s, CommentEnd(s, i, i + 1))
               [] c = "/" /\ n \notin {"/", "*"} -> <<Lexeme("Slash", i, i)>> \o Lexemes(s, i + 1)
               [] c \in Whitespace \cup {"\n"} -> Lexemes(s, i + 1)
               [] c = "\"" ->
                    IF QuoteAt(s, i + 1) = 0 THEN <<Lexeme("<invalid>", i, Len(s))>>
                    ELSE <<Lexeme("String", i, QuoteAt(s, i + 1))>>
                             \o Lexemes(s, QuoteAt(s, i + 1) + 1)
               [] c \in Digits ->
                    <<Lexeme("Number", i, NumberEnd(s, i))>> \o Lexemes(s, NumberEnd(s, i) + 1)
               [] c \in Letters ->
                    LET e == RunEnd(s, i, Letters \cup Digits)
                    IN  <<Lexeme(lookup_keyword(SubSeq(s, i, e)).type, i, e)>> \o Lexemes(s, e + 1)
               [] c \in OneOrTwoChars /\ n = "=" ->
                    <<Lexeme(TwoCharToken(c).type, i, i + 1)>> \o Lexemes(s, i + 2)
               [] c \in OneOrTwoChars /\ n # "=" ->
                    <<Lexeme(OneCharToken(c).type, i, i)>> \o Lexemes(s, i + 1)
               [] c \in SingleChars -> <<Lexeme(SingleCharToken(c).type, i, i)>> \o Lexemes(s, i + 1)
               [] c = "?" -> <<Lexeme("Quest", i, i)>> \o Lexemes(s, i + 1)
               [] c = ":" -> <<Lexeme("Colon", i, i)>> \o Lexemes(s, i + 1)
               [] OTHER -> <<Lexeme("<invalid>", i, i)>> \o Lexemes(s, i + 1)

Types(lexemes) == [k \in 1..Len(lexemes) |-> lexemes[k].type]

TokenTypes(ctx_tokens) == [k \in 1..Len(ctx_tokens) |-> ctx_tokens[k].token.type]

\* the text is made only of valid tokens, whitespace and comments
ValidSource(s) == \A k \in 1..Len(Lexemes(s, 1)) : Lexemes(s, 1)[k].type # "<invalid>"

\* the number of newline characters among s[1..to]
RECURSIVE Newlines(_, _)
Newlines(s, to) ==
    IF to <= 0 THEN 0
    ELSE Newlines(s, to - 1) + (IF to <= Len(s) /\ s[to] = "\n" THEN 1 ELSE 0)

-----------------------------------------------------------------------------
(* C1 *)

\* C1: for every text made only of valid tokens, whitespace and comments, scan
\* returns success, and the tokens returned are the text's lexemes in source
\* order followed by exactly one Eof, which is last.
C1_ValidSourceScans ==
    pc = "done" /\ ValidSource(chars) =>
        /\ scan_result.ok
        /\ TokenTypes(scan_result.tokens) = Types(Lexemes(chars, 1)) \o <<"Eof">>

\* the same with the texts that hold a '?' or a ':' token left out
C1_ValidSourceWithoutTernaryScans ==
    pc = "done" /\ ValidSource(chars)
            /\ (\A k \in 1..Len(Lexemes(chars, 1)) :
                    Lexemes(chars, 1)[k].type \notin {"Quest", "Colon"}) =>
        /\ scan_result.ok
        /\ TokenTypes(scan_result.tokens) = Types(Lexemes(chars, 1)) \o <<"Eof">>

-----------------------------------------------------------------------------
(* C2 *)

\* C2: every token scan pushes is paired with the line on which it started:
\* 1 plus the number of newlines before its first character (chars[start]).
C2_TokenLineIsStartLine ==
    [][tokens' # tokens =>
        tokens'[Len(tokens')].line = 1 + Newlines(chars, start)]_vars

\* what the code pairs a token with: the line of the token's last character
C2_TokenLineIsEmissionLine ==
    [][tokens' # tokens =>
        tokens'[Len(tokens')].line = 1 + Newlines(chars, current')]_vars

-----------------------------------------------------------------------------
(* C3 *)

NestedCommentSource ==
    <<"/", "*", " ", "a", " ", "/", "*", " ", "b", " ", "*", "/", " ", "c", " ", "*", "/", " ", "1">>

\* inside a block comment the depth is the nesting depth of the text consumed
\* since the comment opened (chars[start..=current]), and it is at least 1
C3_DepthTracksNesting ==
    pc = "block_comment" =>
        /\ depth = NestDepth(chars, start + 1, current + 1, 0)
        /\ depth >= 1

\* a step inside a block comment pushes no token and reports no error; it
\* leaves the comment exactly when the depth is back to zero (or the text is
\* exhausted), and then the next iteration starts right after the closing "*/"
C3_CommentStep ==
    pc = "block_comment" =>
        /\ tokens' = tokens
        /\ has_error' = has_error
        /\ (pc' = "top") = (depth' = 0 \/ CharAt(current + 1) = NoChar)
        /\ pc' \in {"top", "block_comment"}
        /\ depth' = 0 =>
              /\ CharAt(current' - 2) = "*"
              /\ CharAt(current' - 1) = "/"
              /\ start' = current'
              /\ current' = CommentEnd(chars, start + 1, start + 2) - 1

\* C3: block comments nest: the depth goes up with every inner "/*" and down
\* with every "*/", the comment ends exactly when it is back to zero, nothing
\* inside it yields a token or an error, and scanning resumes right after the
\* matching "*/"; "/* a /* b */ c */ 1" scans to Number(1), Eof.
C3_BlockCommentsNest ==
    /\ [](C3_DepthTracksNesting
            /\ (pc = "done" /\ chars = NestedCommentSource =>
                   /\ scan_result.ok
                   /\ scan_result.tokens =
                          <<CtxToken(NumberTok(<<1, 1>>), 1), CtxToken(Tok("Eof"), 1)>>))
    /\ [][C3_CommentStep]_vars

\* the nested comment of the example has just been closed at depth zero
C3_Witness ==
    /\ chars = NestedCommentSource
    /\ pc = "top"
    /\ current = 17
    /\ depth = 0
    /\ tokens = <<>>
    /\ ~has_error

-----------------------------------------------------------------------------
(* C4 *)

\* the step that ends a number literal pushes the number of the maximal
\* literal that starts at chars[start] and leaves the cursor right after it
C4_NumberEmitted ==
    pc \in {"number", "number_frac"} /\ pc' = "top" =>
        /\ current' = NumberEnd(chars, start + 1)
        /\ tokens' = Append(tokens,
               CtxToken(NumberTok(ParseF64(SubSeq(chars, start + 1,
                                                  NumberEnd(chars, start + 1)))), line))

\* C4: a number literal is a maximal run of digits, then a '.' only if a digit
\* follows it, then a further maximal run of digits; a '.' with no digit after
\* it is left to be scanned as a Dot.  "1." gives Number(1), Dot, Eof and
\* "1.5.3" gives Number(1.5), Dot, Number(3), Eof.
C4_NumberLiteral ==
    /\ [](pc = "done" =>
            /\ chars = <<"1", ".">> =>
                  scan_result.tokens =
                      <<CtxToken(NumberTok(<<1, 1>>), 1), CtxToken(Tok("Dot"), 1),
                        CtxToken(Tok("Eof"), 1)>>
            /\ chars = <<"1", ".", "5", ".", "3">> =>
                  scan_result.tokens =
                      <<CtxToken(NumberTok(<<3, 2>>), 1), CtxToken(Tok("Dot"), 1),
                        CtxToken(NumberTok(<<3, 1>>), 1), CtxToken(Tok("Eof"), 1)>>)
    /\ [][C4_NumberEmitted]_vars

\* "1.5.3" has been scanned
C4_Witness ==
    /\ chars = <<"1", ".", "5", ".", "3">>
    /\ pc = "done"
    /\ TokenTypes(tokens) = <<"Number", "Dot", "Number", "Eof">>

-----------------------------------------------------------------------------
(* C5 *)

TernarySource ==
    <<"(", "1", " ", "+", " ", "2", ")", " ", "*", " ", "3", " ", "=", "=", " ", "9", " ",
      "?", " ", "\"", "y", "e", "s", "\"", " ", ":", " ", "\"", "n", "o", "\"">>

\* C5: '?' and ':' are tokens: scanning a valid text that holds a '?' or a ':'
\* token reports no error, and
\* (1 + 2) * 3 == 9 ? "yes" : "no" scans to its fourteen tokens.
C5_TernarySymbolsScan ==
    pc = "done" =>
        /\ (/\ ValidSource(chars)
            /\ \E k \in 1..Len(Lexemes(chars, 1)) :
                   Lexemes(chars, 1)[k].type \in {"Quest", "Colon"}) => ~has_error
        /\ chars = TernarySource =>
              /\ scan_result.ok
              /\ TokenTypes(scan_result.tokens) =
                     <<"LeftParen", "Number", "Plus", "Number", "RightParen", "Star",
                       "Number", "EqualEqual", "Number", "Quest", "String", "Colon",
                       "String", "Eof">>

-----------------------------------------------------------------------------
(* C6 *)

\* the literal node of a Number token
NumberLiteral(ctx_token) == [node |-> "Literal", value |-> NumberValue(ctx_token.token.num)]

BinaryNode(left, operator, right) ==
    [node |-> "Binary", left |-> left, operator |-> operator, right |-> right]

TernaryNode(condition, then, otherwise) ==
    [node |-> "Ternary", condition |-> condition, then |-> then, otherwise |-> otherwise]

SameLevel(op1, op2) ==
    \E level \in {EqualityOps, ComparisonOps, TermOps, FactorOps} : op1 \in level /\ op2 \in level

SubtractionTokens == Located(<<Num(1), Tok("Minus"), Num(2), Tok("Minus"), Num(3)>>)

\* C6: a chain a op1 b op2 c of two operators of the same binary level parses
\* to Binary(Binary(a, op1, b), op2, c); 1 - 2 - 3 renders as ((1 - 2) - 3)
\* and evaluates to -4.
C6_LeftAssociative ==
    ppc = "done" =>
        /\ (/\ TokenTypes(p_tokens)[1] = "Number"
            /\ Len(p_tokens) = 6
            /\ TokenTypes(p_tokens)[3] = "Number"
            /\ TokenTypes(p_tokens)[5] = "Number"
            /\ SameLevel(TokenTypes(p_tokens)[2], TokenTypes(p_tokens)[4])) =>
               /\ parse_result.ok
               /\ parse_result.expr =
                      BinaryNode(BinaryNode(NumberLiteral(p_tokens[1]), p_tokens[2],
                                            NumberLiteral(p_tokens[3])),
                                 p_tokens[4], NumberLiteral(p_tokens[5]))
        /\ p_tokens = SubtractionTokens =>
               /\ to_string(parse_result.expr) =
                      <<"(", "(", "1", " ", "-", " ", "2", ")", " ", "-", " ", "3", ")">>
               /\ evaluate(parse_result.expr) = Value(NumberValue(<<-4, 1>>))

\* 1 - 2 - 3 has been parsed
C6_Witness ==
    /\ ppc = "done"
    /\ p_tokens = SubtractionTokens
    /\ parse_result.ok
    /\ parse_result.expr.left.node = "Binary"

-----------------------------------------------------------------------------
(* C7 *)

\* C7: the right operand of a comparison operator is parsed at the term
\* level: a < b + c parses to Binary(a, <, Binary(b, +, c)), for every
\* comparison operator and for + and -.
C7_ComparisonOverTerm ==
    (/\ ppc = "done"
     /\ Len(p_tokens) = 6
     /\ TokenTypes(p_tokens)[1] = "Number"
     /\ TokenTypes(p_tokens)[2] \in ComparisonOps
     /\ TokenTypes(p_tokens)[3] = "Number"
     /\ TokenTypes(p_tokens)[4] \in TermOps
     /\ TokenTypes(p_tokens)[5] = "Number") =>
        /\ parse_result.ok
        /\ parse_result.expr =
               BinaryNode(NumberLiteral(p_tokens[1]), p_tokens[2],
                          BinaryNode(NumberLiteral(p_tokens[3]), p_tokens[4],
                                     NumberLiteral(p_tokens[5])))

-----------------------------------------------------------------------------
(* C8 *)

\* how many tokens of the given type are among toks[1..n]
RECURSIVE CountType(_, _, _)
CountType(toks, n, type) ==
    IF n = 0 THEN 0
    ELSE CountType(toks, n - 1, type) + (IF toks[n].token.type = type THEN 1 ELSE 0)

\* how many Ternary nodes the tree holds
RECURSIVE CountTernary(_)
CountTernary(expr) ==
    CASE expr.node = "Binary" -> CountTernary(expr.left) + CountTernary(expr.right)
      [] expr.node = "Grouping" -> CountTernary(expr.expr)
      [] expr.node = "Unary" -> CountTernary(expr.expr)
      [] expr.node = "Ternary" ->
           1 + CountTernary(expr.condition) + CountTernary(expr.then)
               + CountTernary(expr.otherwise)
      [] OTHER -> 0

\* C8: the ternary rule is lowest precedence and right-associative.
\* a ? b : c ? d : e parses to Ternary(a, b, Ternary(c, d, e)); the condition
\* is an equality-level expression (a == b ? c : d) and so is not itself a
\* ternary, the branches are full expressions (a ? b : c == d); every '?' the
\* parse consumed has its ':' (a successful parse consumed as many ':' as '?',
\* one pair per Ternary node), and a ? b with no ':' after b fails.
C8_TernaryRightAssociative ==
    ppc = "done" =>
        /\ p_tokens = Located(TernaryChainTokens) =>
               /\ parse_result.ok
               /\ parse_result.expr =
                      TernaryNode(NumberLiteral(p_tokens[1]), NumberLiteral(p_tokens[3]),
                                  TernaryNode(NumberLiteral(p_tokens[5]),
                                              NumberLiteral(p_tokens[7]),
                                              NumberLiteral(p_tokens[9])))
        /\ TokenTypes(p_tokens) = <<"Number", "EqualEqual", "Number", "Quest", "Number",
                                    "Colon", "Number", "Eof">> =>
               parse_result.expr =
                   TernaryNode(BinaryNode(NumberLiteral(p_tokens[1]), p_tokens[2],
                                          NumberLiteral(p_tokens[3])),
                               NumberLiteral(p_tokens[5]), NumberLiteral(p_tokens[7]))
        /\ TokenTypes(p_tokens) = <<"Number", "Quest", "Number", "Colon", "Number",
                                    "EqualEqual", "Number", "Eof">> =>
               parse_result.expr =
                   TernaryNode(NumberLiteral(p_tokens[1]), NumberLiteral(p_tokens[3]),
                               BinaryNode(NumberLiteral(p_tokens[5]), p_tokens[6],
                                          NumberLiteral(p_tokens[7])))
        /\ parse_result.ok =>
               /\ CountType(p_tokens, p_current, "Quest") = CountTernary(parse_result.expr)
               /\ CountType(p_tokens, p_current, "Colon") = CountTernary(parse_result.expr)
               /\ parse_result.expr.node = "Ternary" =>
                      parse_result.expr.condition.node # "Ternary"
        /\ (/\ Len(p_tokens) >= 4
            /\ TokenTypes(p_tokens)[1] = "Number"
            /\ TokenTypes(p_tokens)[2] = "Quest"
            /\ TokenTypes(p_tokens)[3] = "Number"
            /\ TokenTypes(p_tokens)[4] \in {"Eof", "RightParen", "SemiColon", "Number"}) =>
               /\ ~parse_result.ok
               /\ parse_result.message = "expected colon inside ternary expression"

\* 1 ? 2 : 3 ? 4 : 5 has been parsed to a ternary whose else branch is a ternary
C8_Witness ==
    /\ ppc = "done"
    /\ p_tokens = Located(TernaryChainTokens)
    /\ parse_result.ok
    /\ parse_result.expr.node = "Ternary"
    /\ parse_result.expr.otherwise.node = "Ternary"

-----------------------------------------------------------------------------
(* C9 *)

\* truthiness: Nil is false, Bool(b) is b, a String is false only when empty,
\* a Number only when zero
Truthy(value) ==
    \/ value.kind = "Bool" /\ value.b
    \/ value.kind = "String" /\ Len(value.s) > 0
    \/ value.kind = "Number" /\ value.n[1] # 0

\* true ? 1 : 1 / 0, the operator of the division on line 4
ShortCircuitExpr ==
    TernaryNode(Literal(BoolValue(TRUE)), Literal(NumberValue(<<1, 1>>)),
                BinaryNode(Literal(NumberValue(<<1, 1>>)), CtxToken(Tok("Slash"), 4),
                           Literal(NumberValue(<<0, 1>>))))

\* C9: evaluating Ternary(c, t, e) gives the error of c when c fails, else the
\* result of t when c is truthy and the result of e otherwise; an error of
\* the untaken branch is never the result.  (In the trees drawn here the
\* operators of c, t and e are on lines 2, 3 and 4.)
C9_TernaryShortCircuits ==
    epc = "done" /\ e_expr.node = "Ternary" =>
        /\ ~evaluate(e_expr.condition).ok =>
               /\ eval_result = evaluate(e_expr.condition)
               /\ eval_result.token.line = 2
        /\ evaluate(e_expr.condition).ok /\ Truthy(evaluate(e_expr.condition).value) =>
               /\ eval_result = evaluate(e_expr.then)
               /\ ~eval_result.ok => eval_result.token.line = 3
        /\ evaluate(e_expr.condition).ok /\ ~Truthy(evaluate(e_expr.condition).value) =>
               /\ eval_result = evaluate(e_expr.otherwise)
               /\ ~eval_result.ok => eval_result.token.line = 4
        /\ e_expr = ShortCircuitExpr => eval_result = Value(NumberValue(<<1, 1>>))

\* true ? 1 : 1 / 0 has been evaluated to 1
C9_Witness ==
    /\ epc = "done"
    /\ e_expr = ShortCircuitExpr
    /\ eval_result.ok
    /\ ~evaluate(e_expr.otherwise).ok

-----------------------------------------------------------------------------
(* C10 *)

IsSlashOfLiterals(expr) ==
    /\ expr.node = "Binary"
    /\ expr.operator.token.type = "Slash"
    /\ expr.left.node = "Literal"
    /\ expr.right.node = "Literal"

\* C10: for l / r on two Numbers the result is ZeroDivisionError with the '/'
\* token exactly when r is zero, and else the Number q with q * r = l
\* (1 / 0.5 is 2); when l or r is not a Number it is TypeError, also when r is
\* a zero Number; ZeroDivisionError comes from a '/' only.
C10_Division ==
    epc = "done" =>
        /\ IsSlashOfLiterals(e_expr) =>
               LET l == e_expr.left.value
                   r == e_expr.right.value
               IN  IF l.kind = "Number" /\ r.kind = "Number"
                   THEN IF r.n[1] = 0
                        THEN eval_result = RuntimeError("ZeroDivisionError", e_expr.operator)
                        ELSE /\ eval_result.ok
                             /\ eval_result.value.kind = "Number"
                             /\ RatMul(eval_result.value.n, r.n) = l.n
                   ELSE eval_result = RuntimeError("TypeError", e_expr.operator)
        /\ (/\ IsSlashOfLiterals(e_expr)
            /\ e_expr.left.value = NumberValue(<<1, 1>>)
            /\ e_expr.right.value = NumberValue(<<1, 2>>)) =>
               eval_result = Value(NumberValue(<<2, 1>>))
        /\ eval_result.error = "ZeroDivisionError" =>
               eval_result.token.token.type = "Slash"

\* 1 / 0 has failed with ZeroDivisionError, and "a" / 0 with TypeError
C10_Witness ==
    /\ epc = "done"
    /\ IsSlashOfLiterals(e_expr)
    /\ e_expr.right.value = NumberValue(<<0, 1>>)
    /\ e_expr.left.value = NumberValue(<<1, 1>>)
    /\ eval_result.error = "ZeroDivisionError"

-----------------------------------------------------------------------------
(* C11 *)

IsBinaryOfLiterals(expr) ==
    /\ expr.node = "Binary"
    /\ expr.left.node = "Literal"
    /\ expr.right.node = "Literal"

IsUnaryOfLiteral(expr) == expr.node = "Unary" /\ expr.expr.node = "Literal"

\* '+', binary '-', '*' and the four comparisons
TypedOps == {"Plus", "Minus", "Star", "Less", "LessEqual", "Greater", "GreaterEqual"}

\* the result of l op r on two Numbers l = l1/l2 and r = r1/r2 (l2, r2 > 0)
NumericResult(type, l, r, result) ==
    LET lr == l[1] * r[2]
        rl == r[1] * l[2]
    IN  CASE type = "Plus" ->
               result.kind = "Number" /\ result.n[1] * l[2] * r[2] = (lr + rl) * result.n[2]
          [] type = "Minus" ->
               result.kind = "Number" /\ result.n[1] * l[2] * r[2] = (lr - rl) * result.n[2]
          [] type = "Star" ->
               result.kind = "Number" /\ result.n[1] * l[2] * r[2] = l[1] * r[1] * result.n[2]
          [] type = "Less" -> result.kind = "Bool" /\ result.b = (lr < rl)
          [] type = "LessEqual" -> result.kind = "Bool" /\ result.b = (lr <= rl)
          [] type = "Greater" -> result.kind = "Bool" /\ result.b = (lr > rl)
          [] type = "GreaterEqual" -> result.kind = "Bool" /\ result.b = (lr >= rl)

\* C11: on two literal operands, '+' gives the sum of two Numbers and the
\* concatenation of two Strings; '-', '*', <, <=, >, >= give their result on
\* two Numbers; unary '-' negates a Number; every other pairing of operand
\* types is TypeError carrying the operator's token, never a coerced value.
C11_OperatorTypeRules ==
    epc = "done" =>
        /\ IsBinaryOfLiterals(e_expr) /\ e_expr.operator.token.type \in TypedOps =>
               LET l == e_expr.left.value
                   r == e_expr.right.value
                   type == e_expr.operator.token.type
               IN  IF l.kind = "Number" /\ r.kind = "Number"
                   THEN /\ eval_result.ok
                        /\ NumericResult(type, l.n, r.n, eval_result.value)
                   ELSE IF type = "Plus" /\ l.kind = "String" /\ r.kind = "String"
                   THEN eval_result = Value(StringValue(l.s \o r.s))
                   ELSE eval_result = RuntimeError("TypeError", e_expr.operator)
        /\ IsUnaryOfLiteral(e_expr) /\ e_expr.operator.token.type = "Minus" =>
               LET v == e_expr.expr.value
               IN  IF v.kind = "Number"
                   THEN eval_result = Value(NumberValue(<<-v.n[1], v.n[2]>>))
                   ELSE eval_result = RuntimeError("TypeError", e_expr.operator)

\* "a" - "a" has failed with TypeError at the '-'
C11_Witness ==
    /\ epc = "done"
    /\ e_expr = BinaryNode(Literal(StringValue(<<"a">>)), CtxToken(Tok("Minus"), 1),
                           Literal(StringValue(<<"a">>)))
    /\ eval_result.error = "TypeError"
    /\ eval_result.token = e_expr.operator

-----------------------------------------------------------------------------
(* C12 *)

\* the same variant with an equal payload (Nil has none)
SameValue(l, r) ==
    /\ l.kind = r.kind
    /\ l.kind = "Bool" => l.b = r.b
    /\ l.kind = "String" => l.s = r.s
    /\ l.kind = "Number" => l.n[1] * r.n[2] = r.n[1] * l.n[2]

\* C12: on two values '==' is Bool(true) exactly when both are the same
\* variant with an equal payload and '!=' is its negation; neither is ever a
\* TypeError: an error of l == r or l != r is the error of an operand (whose
\* operator is on line 2 or 3, the '==' being on line 1).
C12_EqualityTotal ==
    epc = "done" /\ e_expr.node = "Binary" /\ e_expr.operator.token.type \in EqualityOps =>
        /\ IsBinaryOfLiterals(e_expr) =>
               /\ e_expr.operator.token.type = "EqualEqual" =>
                      eval_result =
                          Value(BoolValue(SameValue(e_expr.left.value, e_expr.right.value)))
               /\ e_expr.operator.token.type = "BangEqual" =>
                      eval_result =
                          Value(BoolValue(~SameValue(e_expr.left.value, e_expr.right.value)))
        /\ evaluate(e_expr.left).ok /\ evaluate(e_expr.right).ok =>
               /\ eval_result.ok
               /\ eval_result.value.kind = "Bool"
        /\ ~eval_result.ok => eval_result.token.line \in {2, 3}

\* 0 == false has been evaluated to false
C12_Witness ==
    /\ epc = "done"
    /\ e_expr = BinaryNode(Literal(NumberValue(<<0, 1>>)), CtxToken(Tok("EqualEqual"), 1),
                           Literal(BoolValue(FALSE)))
    /\ eval_result = Value(BoolValue(FALSE))

-----------------------------------------------------------------------------
(* C13 *)

\* the innermost operand of a chain of '!' and the length of the chain
RECURSIVE BangOperand(_)
BangOperand(expr) ==
    IF expr.node = "Unary" /\ expr.operator.token.type = "Bang"
    THEN BangOperand(expr.expr) ELSE expr

RECURSIVE BangCount(_)
BangCount(expr) ==
    IF expr.node = "Unary" /\ expr.operator.token.type = "Bang"
    THEN 1 + BangCount(expr.expr) ELSE 0

\* C13: '!' applied to a value x never fails: !x is Bool(not truthy(x)), !!x
\* is Bool(truthy(x)) and !!!x is Bool(not truthy(x)) again, where Nil is
\* false, Bool(b) is b, a String is false only when empty and a Number only
\* when zero.
C13_BangIsTruthinessNegation ==
    epc = "done" /\ BangCount(e_expr) > 0 /\ BangOperand(e_expr).node = "Literal" =>
        eval_result =
            Value(BoolValue(IF BangCount(e_expr) % 2 = 1
                            THEN ~Truthy(BangOperand(e_expr).value)
                            ELSE Truthy(BangOperand(e_expr).value)))

\* !!0 has been evaluated to false
C13_Witness ==
    /\ epc = "done"
    /\ BangCount(e_expr) = 2
    /\ BangOperand(e_expr) = Literal(NumberValue(<<0, 1>>))
    /\ eval_result = Value(BoolValue(FALSE))

-----------------------------------------------------------------------------
(* C14 *)

\* the scanner's view of an unexpected character: one that starts none of its
\* arms (for this scanner '?' and ':' are among them)
Unexpected(c) ==
    c \notin {"(", ")", "{", "}", ",", ".", "-", "+", ";", "*", "!", "=", "<", ">", "/",
              " ", "\r", "\t", "\n", "\""} \cup Digits \cup Letters \cup {NoChar}

\* an unexpected character sets the flag, is skipped alone, yields no token,
\* and the outer loop goes on
C14_UnexpectedSkipped ==
    pc = "top" /\ Unexpected(CharAt(current)) =>
        /\ has_error'
        /\ current' = current + 1
        /\ start' = current'
        /\ tokens' = tokens
        /\ line' = line
        /\ pc' = "top"

\* the flag is set only at an unexpected character or at a string with no
\* closing quote, and a string arm that ends without a token sets it
C14_ErrorDetected ==
    /\ ~has_error /\ has_error' =>
           \/ pc = "top" /\ Unexpected(CharAt(current))
           \/ pc = "string" /\ QuoteAt(chars, start + 2) = 0 /\ current' > Len(chars)
    /\ pc = "string" /\ pc' = "top" /\ tokens' = tokens => has_error'

C14_FlagKept == has_error => has_error'

\* scan has returned: failure exactly when the flag is set, and then without
\* any token; the flag is set exactly when the text holds a character that
\* starts no token or an unterminated string ('?' and ':' set aside)
C14_Returned ==
    pc = "done" =>
        /\ scan_result.ok = ~has_error
        /\ ~scan_result.ok => scan_result.tokens = <<>>
        /\ scan_result.ok => scan_result.tokens = tokens
        /\ (\A k \in 1..Len(Lexemes(chars, 1)) :
                Lexemes(chars, 1)[k].type \notin {"Quest", "Colon"}) =>
               (has_error = ~ValidSource(chars))

\* C14: an unexpected character is skipped alone and the scan goes on to the
\* end of the input; the error flag is set only by an unexpected character or
\* an unterminated string and is never cleared; scan fails exactly when the
\* flag is set, and then returns no tokens, not even those scanned.
C14_CollectAllErrors ==
    /\ [](C14_Returned)
    /\ [][C14_UnexpectedSkipped /\ C14_ErrorDetected /\ C14_FlagKept]_vars

\* '#1#' has been scanned to the end: two errors, the Number between them
\* scanned, nothing returned
C14_Witness ==
    /\ pc = "done"
    /\ chars = <<"#", "1", "#">>
    /\ has_error
    /\ TokenTypes(tokens) = <<"Number", "Eof">>
    /\ scan_result = [ok |-> FALSE, tokens |-> <<>>]

-----------------------------------------------------------------------------
(* C15 *)

\* scanning s from position i reaches a block comment that is still open at
\* the end of s
RECURSIVE EndsInOpenComment(_, _)
EndsInOpenComment(s, i) ==
    IF i > Len(s) THEN FALSE
    ELSE LET c == s[i]
             n == At(s, i + 1)
         IN  CASE c = "/" /\ n = "/" -> EndsInOpenComment(s, LineEnd(s, i))
               [] c = "/" /\ n = "*" ->
                    IF CommentEnd(s, i, i + 1) = Len(s) + 1 /\ NestDepth(s, i, Len(s), 0) > 0
                    THEN TRUE
                    ELSE EndsInOpenComment(s, CommentEnd(s, i, i + 1))
               [] c = "\"" ->
                    IF QuoteAt(s, i + 1) = 0 THEN FALSE
                    ELSE EndsInOpenComment(s, QuoteAt(s, i + 1) + 1)
               [] c \in Digits -> EndsInOpenComment(s, NumberEnd(s, i) + 1)
               [] OTHER -> EndsInOpenComment(s, i + 1)

\* the text is made of valid tokens the scanner knows, whitespace and comments
ScannableSource(s) ==
    \A k \in 1..Len(Lexemes(s, 1)) :
        Lexemes(s, 1)[k].type \notin {"<invalid>", "Quest", "Colon"}

\* leaving the block comment loop, closed or at the end of the input, sets
\* no error and pushes no token
C15_CommentLeft ==
    pc = "block_comment" /\ pc' = "top" =>
        /\ has_error' = has_error
        /\ tokens' = tokens

\* C15: when the text ends inside a block comment of any depth, the scan
\* raises no error for it: a text otherwise valid is scanned with success to
\* the tokens before the comment followed by Eof, none of them from the
\* comment.
C15_OpenCommentTolerated ==
    /\ [](pc = "done" /\ EndsInOpenComment(chars, 1) /\ ScannableSource(chars) =>
             /\ ~has_error
             /\ scan_result.ok
             /\ TokenTypes(scan_result.tokens) = Types(Lexemes(chars, 1)) \o <<"Eof">>)
    /\ [][C15_CommentLeft]_vars

\* '1/*a' has been scanned: the Number and Eof, no error; the comment was
\* left at depth 1
C15_Witness ==
    /\ pc = "done"
    /\ chars = <<"1", "/", "*", "a">>
    /\ depth = 1
    /\ scan_result.ok
    /\ TokenTypes(scan_result.tokens) = <<"Number", "Eof">>

-----------------------------------------------------------------------------
(* C16 *)

\* the tokens that can only be a binary operator: == != < <= > >= + * /
OnlyBinaryOperators ==
    {"EqualEqual", "BangEqual", "Less", "LessEqual", "Greater", "GreaterEqual", "Plus",
     "Star", "Slash"}

\* the tokens an expression can start with
StartsExpression == {"False", "True", "Nil", "Number", "String", "LeftParen", "Bang", "Minus"}

MissingExpression == {"missing expression on left side of operator", "missing expression"}

\* the type of the token under the cursor when parse returned
TokenAtCursor ==
    IF p_current < Len(p_tokens) THEN p_tokens[p_current + 1].token.type ELSE "<none>"

\* C16: a parse that fails where an expression is expected fails at a token
\* that starts no expression, with the cursor left on it and no tree; the
\* message is 'missing expression on left side of operator' exactly when
\* that token is one of == != < <= > >= + * /, and 'missing expression'
\* otherwise; a sequence whose first token starts no expression fails so
\* with the cursor at 0.
C16_PrimaryErrors ==
    ppc = "done" =>
        /\ ~parse_result.ok /\ parse_result.message \in MissingExpression =>
               /\ parse_result.expr = NoExpr
               /\ TokenAtCursor \notin StartsExpression
               /\ (parse_result.message = "missing expression on left side of operator")
                      = (TokenAtCursor \in OnlyBinaryOperators)
        /\ p_tokens[1].token.type \notin StartsExpression =>
               /\ ~parse_result.ok
               /\ parse_result.message \in MissingExpression
               /\ p_current = 0

\* the same with '*' and '/' counted among the other tokens
C16_PrimaryErrorsStarSlashPlain ==
    ppc = "done" =>
        /\ ~parse_result.ok /\ parse_result.message \in MissingExpression =>
               /\ parse_result.expr = NoExpr
               /\ TokenAtCursor \notin StartsExpression
               /\ (parse_result.message = "missing expression on left side of operator")
                      = (TokenAtCursor \in OnlyBinaryOperators \ {"Star", "Slash"})
        /\ p_tokens[1].token.type \notin StartsExpression =>
               /\ ~parse_result.ok
               /\ parse_result.message \in MissingExpression
               /\ p_current = 0

-----------------------------------------------------------------------------
(* C17 *)

\* the tokens that cannot continue an expression that is complete
CannotContinue ==
    {"Number", "String", "True", "False", "Nil", "LeftParen", "RightParen", "SemiColon",
     "Bang", "Colon", "Eof"}

\* the tokens before the cursor, closed by the Eof of the sequence
ConsumedTokens == SubSeq(p_tokens, 1, p_current) \o <<p_tokens[Len(p_tokens)]>>

\* C17: parse never moves the cursor past the Eof that ends the sequence; a
\* literal followed by a token that cannot continue an expression ('1 2',
\* '1 )') parses with success to that literal with the cursor on the second
\* token; and a successful parse returns the tree of the tokens before the
\* cursor, whatever follows them.
C17_TrailingTokensIgnored ==
    ppc = "done" =>
        /\ p_current <= Len(p_tokens) - 1
        /\ (/\ Len(p_tokens) >= 2
            /\ p_tokens[1].token.type \in {"Number", "String", "True", "False", "Nil"}
            /\ p_tokens[2].token.type \in CannotContinue) =>
               /\ parse_result.ok
               /\ parse_result.expr.node = "Literal"
               /\ p_current = 1
        /\ parse_result.ok =>
               /\ p_current >= 1
               /\ expression(ConsumedTokens, 0) = parse_result

\* '1 )' has been parsed to the literal 1, the cursor on ')'
C17_Witness ==
    /\ ppc = "done"
    /\ TokenTypes(p_tokens) = <<"Number", "RightParen", "Eof">>
    /\ parse_result = Parsed(Literal(NumberValue(<<1, 1>>)), 1)
    /\ p_current = 1

-----------------------------------------------------------------------------
(* C18 *)

\* C18: evaluating Binary(l, op, r), '==' and '!=' included, gives the error
\* of l when l fails, whether or not r fails too; the error of r when only r
\* fails; and else the result of op on the two values, whose own error
\* carries op's token.  (In the trees drawn here op is on line 1 and the
\* operators of l and r are on lines 2 and 3.)
C18_FirstErrorInPostOrder ==
    epc = "done" /\ e_expr.node = "Binary" =>
        /\ ~evaluate(e_expr.left).ok =>
               /\ eval_result = evaluate(e_expr.left)
               /\ eval_result.token.line = 2
        /\ evaluate(e_expr.left).ok /\ ~evaluate(e_expr.right).ok =>
               /\ eval_result = evaluate(e_expr.right)
               /\ eval_result.token.line = 3
        /\ evaluate(e_expr.left).ok /\ evaluate(e_expr.right).ok /\ ~eval_result.ok =>
               /\ eval_result.token = e_expr.operator
               /\ eval_result.token.line = 1
               /\ e_expr.operator.token.type \notin EqualityOps

\* (1 / 0) - (-"a") has failed with the ZeroDivisionError of its left operand
C18_Witness ==
    /\ epc = "done"
    /\ e_expr.node = "Binary"
    /\ e_expr.operator.token.type = "Minus"
    /\ evaluate(e_expr.left).error = "ZeroDivisionError"
    /\ evaluate(e_expr.right).error = "TypeError"
    /\ eval_result.error = "ZeroDivisionError"
    /\ eval_result.token.line = 2

-----------------------------------------------------------------------------
(* C19 *)

InnerLoops == {"line_comment", "block_comment", "string", "number", "number_frac", "identifier"}

\* the cursor never moves back; it moves forward in every iteration of the
\* outer loop and in every iteration of an inner loop that stays in the
\* loop; a loop at the end of the characters is left
C19_Progress ==
    /\ current' >= current
    /\ pc' = "top" => current' > current /\ start' = current'
    /\ pc \in InnerLoops /\ pc' = pc => current' > current
    /\ pc \in InnerLoops /\ current + 1 >= Len(chars) => pc' # pc
    /\ pc = "top" /\ current >= Len(chars) => pc' = "done"
    /\ pc' = "done" => current >= Len(chars)

\* C19: scan returns on every text: the cursor moves forward in every
\* iteration of the outer loop and of the inner loops, the loops are left
\* once it has reached the end of the characters, and start = current at the
\* top of every outer iteration.
C19_ScanTerminates ==
    /\ [](pc = "top" => start = current)
    /\ [](current <= Len(chars) + 2)
    /\ [][C19_Progress]_vars
    /\ <>(pc = "done")

\* '1.5.3' has been scanned to its end and scan has returned
C19_Witness ==
    /\ pc = "done"
    /\ chars = <<"1", ".", "5", ".", "3">>
    /\ current >= Len(chars)
    /\ Len(tokens) = 4

-----------------------------------------------------------------------------
(* C20 *)

\* every Binary node of the tree has one of == != < <= > >= + - * / as its
\* operator and every Unary node has ! or -
RECURSIVE OperatorsValid(_)
OperatorsValid(expr) ==
    CASE expr.node = "Binary" ->
           /\ expr.operator.token.type \in
                  {"EqualEqual", "BangEqual", "Less", "LessEqual", "Greater", "GreaterEqual",
                   "Plus", "Minus", "Star", "Slash"}
           /\ OperatorsValid(expr.left)
           /\ OperatorsValid(expr.right)
      [] expr.node = "Unary" ->
           /\ expr.operator.token.type \in {"Bang", "Minus"}
           /\ OperatorsValid(expr.expr)
      [] expr.node = "Grouping" -> OperatorsValid(expr.expr)
      [] expr.node = "Ternary" ->
           /\ OperatorsValid(expr.condition)
           /\ OperatorsValid(expr.then)
           /\ OperatorsValid(expr.otherwise)
      [] expr.node = "Literal" -> TRUE
      [] OTHER -> FALSE

\* C20: every tree parse returns has valid operators in all its Binary and
\* Unary nodes, and evaluating it ends in a value, a TypeError or a
\* ZeroDivisionError, never in an unhandled-operator arm of the evaluator.
C20_OperatorInvariant ==
    ppc = "done" /\ parse_result.ok =>
        /\ OperatorsValid(parse_result.expr)
        /\ \/ evaluate(parse_result.expr).ok
           \/ evaluate(parse_result.expr).error \in {"TypeError", "ZeroDivisionError"}

\* 1 * "a" has been parsed to a Binary node, which evaluates to a TypeError
C20_Witness ==
    /\ ppc = "done"
    /\ TokenTypes(p_tokens) = <<"Number", "Star", "String", "Eof">>
    /\ parse_result.ok
    /\ parse_result.expr.node = "Binary"
    /\ evaluate(parse_result.expr).error = "TypeError"

====
